---- MODULE Spec2Model ----
(***************************************************************************)
(* Bulk CSV import of the encounter builder (src/app/bulk_import.py) and   *)
(* the record store it writes (src/app/db.py).                             *)
(*                                                                         *)
(* Text cells are TLA+ strings; a row of the upload is a function from     *)
(* column names to cells (a Python dict); a table of the store is the      *)
(* sequence of its records.                                                *)
(***************************************************************************)
EXTENDS Integers, Sequences, FiniteSets, TLC

(***************************************************************************)
(* CSV columns                                                             *)
(***************************************************************************)
SCORE_COLUMNS ==
    {"str_score", "dex_score", "con_score", "int_score", "wis_score", "cha_score"}

\* The data columns, in the order of the template.  Of the twenty-nine
\* columns that _apply_row_to_model treats as plain text the model keeps
\* creature_type, size and notes; name, has_shield, the six ability scores
\* and cr are the columns with a branch of their own.
DATA_COLUMNS ==
    << "name", "creature_type", "size", "has_shield",
       "str_score", "dex_score", "con_score", "int_score", "wis_score", "cha_score",
       "cr", "notes" >>

TARGET_COLUMNS == << "to_monsters", "to_npcs" >>

Range(s) == { s[i] : i \in DOMAIN s }

(***************************************************************************)
(* Cell helpers                                                            *)
(***************************************************************************)
IsSpace(c) == c \in {" ", "\t"}

RECURSIVE LStrip(_)
LStrip(s) ==
    IF s = "" THEN s
    ELSE IF IsSpace(Head(s)) THEN LStrip(Tail(s)) ELSE s

RECURSIVE RStrip(_)
RStrip(s) ==
    IF s = "" THEN s
    ELSE IF IsSpace(SubSeq(s, Len(s), Len(s)))
         THEN RStrip(SubSeq(s, 1, Len(s) - 1))
         ELSE s

\* str.strip()
Strip(s) == RStrip(LStrip(s))

LowerChar(c) ==
    CASE c = "A" -> "a" [] c = "B" -> "b" [] c = "C" -> "c" [] c = "D" -> "d"
      [] c = "E" -> "e" [] c = "F" -> "f" [] c = "G" -> "g" [] c = "H" -> "h"
      [] c = "I" -> "i" [] c = "J" -> "j" [] c = "K" -> "k" [] c = "L" -> "l"
      [] c = "M" -> "m" [] c = "N" -> "n" [] c = "O" -> "o" [] c = "P" -> "p"
      [] c = "Q" -> "q" [] c = "R" -> "r" [] c = "S" -> "s" [] c = "T" -> "t"
      [] c = "U" -> "u" [] c = "V" -> "v" [] c = "W" -> "w" [] c = "X" -> "x"
      [] c = "Y" -> "y" [] c = "Z" -> "z" [] OTHER -> c

\* str.lower()
RECURSIVE Lower(_)
Lower(s) == IF s = "" THEN s ELSE LowerChar(Head(s)) \o Lower(Tail(s))

\* Python None in a cell: csv.DictReader gives it for a cell that a short
\* line lacks.  It is written as a text that no cell of a file holds.
None == "<None>"

\* (v or "")
OrEmpty(v) == IF v = None THEN "" ELSE v

\* the values the help text of the page lists: TRUE, T, YES, Y, 1
TruthyAsDocumented(v) == Lower(Strip(OrEmpty(v))) \in {"1", "true", "t", "yes", "y"}

_truthy(v) == Lower(Strip(OrEmpty(v))) \in {"1", "true", "t", "yes", "y", "on"}

_boolish_to_int(v) == IF _truthy(v) THEN 1 ELSE 0

_clean(s) == Strip(OrEmpty(s))

\* dict.get(col, "")
Get(r, col) == IF col \in DOMAIN r THEN r[col] ELSE ""

\* dict(r) followed by rr[col] = v
SetCol(r, col, v) ==
    [c \in DOMAIN r \cup {col} |-> IF c = col THEN v ELSE r[c]]

IsDigit(c) == c \in {"0", "1", "2", "3", "4", "5", "6", "7", "8", "9"}

DigitVal(c) ==
    CASE c = "0" -> 0 [] c = "1" -> 1 [] c = "2" -> 2 [] c = "3" -> 3
      [] c = "4" -> 4 [] c = "5" -> 5 [] c = "6" -> 6 [] c = "7" -> 7
      [] c = "8" -> 8 [] c = "9" -> 9

AllDigits(s) == \A i \in 1..Len(s) : IsDigit(SubSeq(s, i, i))

\* value of a string of decimal digits
RECURSIVE ParseNat(_)
ParseNat(s) ==
    IF s = "" THEN 0
    ELSE 10 * ParseNat(SubSeq(s, 1, Len(s) - 1)) + DigitVal(SubSeq(s, Len(s), Len(s)))

\* first position of character c in s, 0 when absent
RECURSIVE IndexOf(_, _)
IndexOf(s, c) ==
    IF s = "" THEN 0
    ELSE IF Head(s) = c THEN 1
    ELSE LET k == IndexOf(Tail(s), c) IN IF k = 0 THEN 0 ELSE k + 1

\* int(float(s)) for decimal literals: [sign] digits [. digits] or [sign] . digits.
\* The result is a record: ok is FALSE where float() raises.  Cells written
\* with an exponent, an underscore, "inf" or "nan" are outside this grammar.
IntOfFloat(s) ==
    LET signed == s # "" /\ Head(s) \in {"+", "-"}
        neg    == s # "" /\ Head(s) = "-"
        body   == IF signed THEN Tail(s) ELSE s
        dot    == IndexOf(body, ".")
        whole  == IF dot = 0 THEN body ELSE SubSeq(body, 1, dot - 1)
        frac   == IF dot = 0 THEN "" ELSE SubSeq(body, dot + 1, Len(body))
        ok     == /\ AllDigits(whole) /\ AllDigits(frac)
                  /\ (whole # "" \/ frac # "")
    IN  IF ok THEN [ok |-> TRUE, val |-> IF neg THEN 0 - ParseNat(whole) ELSE ParseNat(whole)]
        ELSE [ok |-> FALSE, val |-> 0]

_to_int(v, default) ==
    LET s == Strip(OrEmpty(v)) IN
    IF s = "" THEN default
    ELSE LET p == IntOfFloat(s) IN IF p.ok THEN p.val ELSE default

StartsWith(s, pre) == Len(s) >= Len(pre) /\ SubSeq(s, 1, Len(pre)) = pre

RECURSIVE Contains(_, _)
Contains(s, sub) ==
    IF Len(s) < Len(sub) THEN FALSE
    ELSE StartsWith(s, sub) \/ Contains(Tail(s), sub)

\* a day token of one digit only
DayTokenOneDigit(s) ==
    IF Len(s) = 1 /\ AllDigits(s) THEN [ok |-> TRUE, day |-> ParseNat(s)]
    ELSE [ok |-> FALSE, day |-> 0]

\* the day matched by ^(\d{1,2})$ on s, or 0 when s does not match
DayToken(s) == IF Len(s) \in {1, 2} /\ AllDigits(s) THEN [ok |-> TRUE, day |-> ParseNat(s)]
               ELSE [ok |-> FALSE, day |-> 0]

\* re.match(r"^(?:jan)\s*-\s*(\d{1,2})$", low)
MatchJanDay(low) ==
    IF ~StartsWith(low, "jan") THEN [ok |-> FALSE, day |-> 0]
    ELSE LET a == LStrip(SubSeq(low, 4, Len(low))) IN
         IF ~StartsWith(a, "-") THEN [ok |-> FALSE, day |-> 0]
         ELSE DayToken(LStrip(Tail(a)))

\* re.match(r"^(\d{1,2})\s*-\s*(?:jan)$", low)
MatchDayJan(low) ==
    LET dash == IndexOf(low, "-") IN
    IF dash = 0 THEN [ok |-> FALSE, day |-> 0]
    ELSE LET d == DayToken(RStrip(SubSeq(low, 1, dash - 1)))
             lead == SubSeq(low, 1, dash - 1)
         IN  IF d.ok /\ IsDigit(Head(lead)) /\ LStrip(SubSeq(low, dash + 1, Len(low))) = "jan"
                THEN d
                ELSE [ok |-> FALSE, day |-> 0]

IsWordChar(c) ==
    \/ IsDigit(c)
    \/ c = "_"
    \/ LowerChar(c) # c
    \/ c \in {"a", "b", "c", "d", "e", "f", "g", "h", "i", "j", "k", "l", "m",
              "n", "o", "p", "q", "r", "s", "t", "u", "v", "w", "x", "y", "z"}

\* re.search(r"\b(2|4|8)\b", low): the positions of a standalone 2, 4 or 8
StandalonePos(low) ==
    { i \in 1..Len(low) :
        /\ SubSeq(low, i, i) \in {"2", "4", "8"}
        /\ (i = 1 \/ ~IsWordChar(SubSeq(low, i - 1, i - 1)))
        /\ (i = Len(low) \/ ~IsWordChar(SubSeq(low, i + 1, i + 1))) }

Min(S) == CHOOSE x \in S : \A y \in S : x <= y

Fraction(day) == CASE day = 2 -> "1/2" [] day = 4 -> "1/4" [] day = 8 -> "1/8"

_normalize_cr(v) ==
    LET s   == _clean(v)
        low == Strip(Lower(s))
        m   == IF MatchJanDay(low).ok THEN MatchJanDay(low) ELSE MatchDayJan(low)
    IN  IF s = "" THEN s
        ELSE IF low \in {"0.125", ".125"} THEN "1/8"
        ELSE IF low \in {"0.25", ".25"} THEN "1/4"
        ELSE IF low \in {"0.5", ".5"} THEN "1/2"
        ELSE IF m.ok /\ m.day \in {2, 4, 8} THEN Fraction(m.day)
        ELSE IF Contains(low, "jan") /\ StandalonePos(low) # {}
             THEN Fraction(DigitVal(SubSeq(low, Min(StandalonePos(low)), Min(StandalonePos(low)))))
        ELSE s

(***************************************************************************)
(* State                                                                   *)
(***************************************************************************)
VARIABLES
    store,      \* the Record Store: store[kind] is the table of that entity type
    upload,         \* the file held by the uploader widget, or NoUpload
    session_state,  \* st.session_state: the entries the page itself stores
    widgets,        \* state of the keyed widgets rendered by the last run
    key_identity,   \* whether the Streamlit build identifies a widget by its key alone
    run,            \* what the last run of page_bulk_import computed and showed
    ext,            \* number of writes other actors have made to the store
    pf,         \* frame of the calls of _plan_import
    af,         \* frame of one call of _apply_row_to_model
    cf,         \* frame of one call of a cell helper (_truthy, _normalize_cr)
    peer        \* the import run of another actor, in a session of its own

vars ==
    << store, upload, session_state, widgets, key_identity, run, ext, pf, af, cf, peer >>

pageVars == << upload, session_state, widgets, key_identity, run, ext >>

KINDS == {"monster", "npc"}

\* the options of the radio; labels are written in ASCII (the ellipsis of
\* the Rename option as three dots, the arrows of the buttons as ->, the
\* dash of the row labels as -)
SKIP      == "Skip duplicates"
RENAME    == "Rename duplicates (Name (1), (2) ...)"
OVERWRITE == "Overwrite existing"
DUP_MODES == {SKIP, RENAME, OVERWRITE}

(***************************************************************************)
(* Record Store (db.py)                                                    *)
(***************************************************************************)
\* Python None in an integer attribute of a record
NoneInt == 0 - 1000000

RecordFields == Range(DATA_COLUMNS)

\* Model(name=nm): an object whose other attributes are not set yet
NewObj(nm) ==
    [c \in RecordFields |->
        IF c = "name" THEN nm
        ELSE IF c \in SCORE_COLUMNS \cup {"has_shield"} THEN NoneInt
        ELSE ""]

\* a record as the forms of the application store it: column defaults
DefaultRecord(nm) ==
    [c \in RecordFields |->
        IF c = "name" THEN nm
        ELSE IF c \in SCORE_COLUMNS THEN 10
        ELSE IF c = "has_shield" THEN 0
        ELSE ""]

NamesOf(table) == { table[i]["name"] : i \in DOMAIN table }

\* select(Model.name) in a session of its own
_existing_names(kind) == NamesOf(store[kind])

(***************************************************************************)
(* Field application                                                       *)
(***************************************************************************)
\* getattr(obj, col, 10) or 10
StoredOr10(obj, col) ==
    IF col \notin DOMAIN obj \/ obj[col] = NoneInt \/ obj[col] = 0 THEN 10 ELSE obj[col]

\* the text a plain column receives: cleaned, and normalised for cr
TextValue(row, col) ==
    IF col = "cr" THEN _normalize_cr(_clean(Get(row, col))) ELSE _clean(Get(row, col))

\* the value attribute col of obj has after the loop body ran for col
ApplyColumn(obj, row, overwrite_nonblank_only, col) ==
    IF col = "name" THEN obj[col]
    ELSE IF col \in SCORE_COLUMNS THEN _to_int(Get(row, col), StoredOr10(obj, col))
    ELSE IF col = "has_shield" THEN _boolish_to_int(Get(row, col))
    ELSE IF overwrite_nonblank_only /\ TextValue(row, col) = "" THEN obj[col]
    ELSE TextValue(row, col)

\* a loop over the columns of the row instead of DATA_COLUMNS: every text
\* column of the row that is an attribute of obj is written
ApplyRowColumns(obj, row, overwrite_nonblank_only) ==
    [c \in DOMAIN obj |->
        IF c \in Range(DATA_COLUMNS)
        THEN ApplyColumn(obj, row, overwrite_nonblank_only, c)
        ELSE IF c \in DOMAIN row /\ c # "id" THEN _clean(row[c])
        ELSE obj[c]]

\* obj after _apply_row_to_model(obj, row, overwrite_nonblank_only): only the
\* DATA_COLUMNS that are attributes of obj are visited
_apply_row_to_model(obj, row, overwrite_nonblank_only) ==
    [c \in DOMAIN obj |->
        IF c \in Range(DATA_COLUMNS)
        THEN ApplyColumn(obj, row, overwrite_nonblank_only, c)
        ELSE obj[c]]

\* no call of _apply_row_to_model is in progress
IdleApply ==
    [ pc |-> "idle", before |-> << >>, row |-> << >>,
      overwrite_nonblank_only |-> FALSE, obj |-> << >> ]

\* no call of a cell helper is in progress
IdleCell ==
    [ pc |-> "idle", fn |-> "", padl |-> "", core |-> "", padr |-> "", arg |-> "",
      out |-> "", again |-> "" ]

(***************************************************************************)
(* Duplicate planner                                                       *)
(***************************************************************************)
\* f"{base} ({i})"
Suffixed(base, i) == base \o " (" \o ToString(i) \o ")"

\* the suffix search with every suffix one too high
FirstFreeShifted(base, taken, i) ==
    IF Suffixed(base, i + 1) \notin taken THEN Suffixed(base, i + 1)
    ELSE Suffixed(base, i + 2)

RECURSIVE FirstFree(_, _, _)
FirstFree(base, taken, i) ==
    IF Suffixed(base, i) \notin taken THEN Suffixed(base, i)
    ELSE FirstFree(base, taken, i + 1)

\* _unique_name without the membership test
UniqueNameUnchecked(base, taken) == base

\* the name _unique_name returns; the caller's set gains that name
_unique_name(base, taken) ==
    IF base \notin taken THEN base ELSE FirstFree(base, taken, 1)

\* local variables that keep the names the call before reserved
PlanStartSticky(existing) ==
    [ existing      |-> existing,
      taken         |-> existing \cup pf.p.taken,
      to_insert     |-> << >>,
      to_update     |-> << >>,
      skipped_dupes |-> << >>,
      renamed       |-> << >> ]

\* the local variables of _plan_import before its loop
PlanStart(existing) ==
    [ existing      |-> existing,
      taken         |-> existing,
      to_insert     |-> << >>,
      to_update     |-> << >>,
      skipped_dupes |-> << >>,
      renamed       |-> << >> ]

\* the loop body with a skip that records a name once and reserves it
PlanRowSkipOnce(p, r, dup_mode) ==
    LET base_name == _clean(Get(r, "name"))
        new_name  == _unique_name(base_name, p.taken)
        inserted  ==
            [p EXCEPT !.taken     = p.taken \cup {new_name},
                      !.renamed   = IF new_name # base_name
                                    THEN Append(p.renamed, << base_name, new_name >>)
                                    ELSE p.renamed,
                      !.to_insert = Append(p.to_insert, SetCol(r, "name", new_name))]
    IN  IF base_name = "" THEN p
        ELSE IF base_name \in p.existing
             THEN IF dup_mode = SKIP
                     THEN IF base_name \in Range(p.skipped_dupes) THEN p
                          ELSE [p EXCEPT !.skipped_dupes = Append(p.skipped_dupes, base_name)]
                  ELSE IF StartsWith(dup_mode, "Rename")
                     THEN inserted
                  ELSE [p EXCEPT !.to_update = Append(p.to_update, r)]
        ELSE inserted

\* the loop body whose new-name branch records no rename pair
PlanRowNewUnrecorded(p, r, dup_mode) ==
    LET base_name == _clean(Get(r, "name"))
        new_name  == _unique_name(base_name, p.taken)
        added     ==
            [p EXCEPT !.taken     = p.taken \cup {new_name},
                      !.to_insert = Append(p.to_insert, SetCol(r, "name", new_name))]
        inserted  ==
            [added EXCEPT !.renamed = IF new_name # base_name
                                      THEN Append(p.renamed, << base_name, new_name >>)
                                      ELSE p.renamed]
    IN  IF base_name = "" THEN p
        ELSE IF base_name \in p.existing
             THEN IF dup_mode = SKIP
                     THEN [p EXCEPT !.skipped_dupes = Append(p.skipped_dupes, base_name)]
                  ELSE IF StartsWith(dup_mode, "Rename")
                     THEN inserted
                  ELSE [p EXCEPT !.to_update = Append(p.to_update, r)]
        ELSE added

\* the loop body whose Rename branch lacks its continue
PlanRowRenameFallsThrough(p, r, dup_mode) ==
    LET base_name == _clean(Get(r, "name"))
        new_name  == _unique_name(base_name, p.taken)
        inserted  ==
            [p EXCEPT !.taken     = p.taken \cup {new_name},
                      !.renamed   = IF new_name # base_name
                                    THEN Append(p.renamed, << base_name, new_name >>)
                                    ELSE p.renamed,
                      !.to_insert = Append(p.to_insert, SetCol(r, "name", new_name))]
    IN  IF base_name = "" THEN p
        ELSE IF base_name \in p.existing
             THEN IF dup_mode = SKIP
                     THEN [p EXCEPT !.skipped_dupes = Append(p.skipped_dupes, base_name)]
                  ELSE IF StartsWith(dup_mode, "Rename")
                     THEN [inserted EXCEPT !.to_update = Append(p.to_update, r)]
                  ELSE [p EXCEPT !.to_update = Append(p.to_update, r)]
        ELSE inserted

\* one iteration of the loop of _plan_import on row r
PlanRow(p, r, dup_mode) ==
    LET base_name == _clean(Get(r, "name"))
        new_name  == _unique_name(base_name, p.taken)
        inserted  ==
            [p EXCEPT !.taken     = p.taken \cup {new_name},
                      !.renamed   = IF new_name # base_name
                                    THEN Append(p.renamed, << base_name, new_name >>)
                                    ELSE p.renamed,
                      !.to_insert = Append(p.to_insert, SetCol(r, "name", new_name))]
    IN  IF base_name = "" THEN p
        ELSE IF base_name \in p.existing
             THEN IF dup_mode = SKIP
                     THEN [p EXCEPT !.skipped_dupes = Append(p.skipped_dupes, base_name)]
                  ELSE IF StartsWith(dup_mode, "Rename")
                     THEN inserted
                  ELSE [p EXCEPT !.to_update = Append(p.to_update, r)]
        ELSE inserted

RECURSIVE PlanLoop(_, _, _)
PlanLoop(p, rows, dup_mode) ==
    IF rows = << >> THEN p
    ELSE PlanLoop(PlanRow(p, Head(rows), dup_mode), Tail(rows), dup_mode)

\* the whole call; the record also keeps the final value of the local sets
_plan_import(kind, cleaned_rows, dup_mode) ==
    PlanLoop(PlanStart(_existing_names(kind)), cleaned_rows, dup_mode)

\* ([], [], [], []): the plan of an entity type that has no candidate rows
EmptyPlan ==
    [ existing |-> {}, taken |-> {}, to_insert |-> << >>, to_update |-> << >>,
      skipped_dupes |-> << >>, renamed |-> << >> ]

(***************************************************************************)
(* CSV reader                                                              *)
(***************************************************************************)
NoUpload == [present |-> FALSE, fieldnames |-> << >>, lines |-> << >>]

RECURSIVE Join(_, _)
Join(q, sep) ==
    IF q = << >> THEN ""
    ELSE IF Len(q) = 1 THEN q[1]
    ELSE q[1] \o sep \o Join(Tail(q), sep)

Max(S) == CHOOSE x \in S : \A y \in S : x >= y

\* the dict csv.DictReader builds for one line, its keys trimmed and the
\* blank keys dropped; a header that occurs twice keeps its last cell
RowDict(fieldnames, line) ==
    [c \in { Strip(fieldnames[i]) : i \in DOMAIN fieldnames } \ {""} |->
        line[Max({ i \in DOMAIN fieldnames : Strip(fieldnames[i]) = c })]]

\* a message shown to the user; cols lists the columns it names
Warning(msg, cols) == [msg |-> msg, cols |-> cols]

ReadRows(u, normalized, missing) ==
    IF u.fieldnames = << >>
      THEN [rows |-> << >>,
            warnings |-> << Warning("CSV has no headers. Download the template and try again.",
                                    << >>) >>]
    ELSE IF "name" \notin normalized
      THEN [rows |-> << >>,
            warnings |-> << Warning("CSV must include a 'name' column. Use the template.",
                                    << >>) >>]
    ELSE [rows |-> [i \in DOMAIN u.lines |-> RowDict(u.fieldnames, u.lines[i])],
          warnings |->
            IF missing # << >>
            THEN << Warning("Some template columns are missing (they will be treated as blank): ",
                            missing) >>
            ELSE << >>]

MissingColumns(normalized) == SelectSeq(DATA_COLUMNS, LAMBDA c : c \notin normalized)

NormalizedFieldnames(u) == { Strip(u.fieldnames[i]) : i \in DOMAIN u.fieldnames }

_read_csv(u) ==
    ReadRows(u, NormalizedFieldnames(u), MissingColumns(NormalizedFieldnames(u)))

(***************************************************************************)
(* The page: one run of page_bulk_import                                   *)
(***************************************************************************)
EDITOR_KEY == "bulk_import_unassigned_editor_rows"

SETTING_KEYS == {"dup_mode_bulk", "overwrite_nonblank_bulk", "dryrun_bulk"}

BULK_BUTTONS == {"All -> Monsters", "All -> NPCs", "All -> Both", "Clear All"}

APPLY_BUTTON == "Apply Import"

NoReport ==
    [ inserted_m |-> 0, updated_m |-> 0, skipped_m |-> 0,
      inserted_n |-> 0, updated_n |-> 0, skipped_n |-> 0 ]

\* What a run computed, by the names of the local variables of
\* page_bulk_import at the point where the run ended; routed_monsters,
\* routed_npcs and routed_unassigned are the lists as the first routing loop
\* left them.
\* snapshots counts the calls of _existing_names the run made.
\* BlankRun is a run that returned before it read the file.
BlankRun ==
    [ stage |-> "NoUpload", pressed |-> "", warnings |-> << >>, cleaned |-> << >>,
      routed_monsters |-> << >>, routed_npcs |-> << >>, routed_unassigned |-> << >>,
      assigned_monsters |-> << >>, assigned_npcs |-> << >>, unassigned |-> << >>,
      resolver |-> FALSE, still_unassigned |-> 0,
      dup_mode |-> SKIP, overwrite_nonblank_only |-> FALSE, dry_run |-> TRUE,
      snapshots |-> 0,
      m_plan |-> EmptyPlan, n_plan |-> EmptyPlan, report |-> NoReport ]

PageIdle ==
    /\ upload = NoUpload
    /\ session_state = << >>
    /\ widgets = << >>
    /\ key_identity = FALSE
    /\ run = BlankRun
    /\ ext = 0

\* the other actor has not started an import; overtaken says that a run of
\* someone else committed after this run read its name snapshots
IdlePeer == [run |-> BlankRun, overtaken |-> FALSE]

_row_to_m(r) == _truthy(Get(r, "to_monsters"))

_row_to_n(r) == _truthy(Get(r, "to_npcs"))

\* a routing that treats the destinations as exclusive: a row for the
\* monsters is not offered to the NPCs
RouteExclusive(cleaned) ==
    [ unassigned        |-> SelectSeq(cleaned, LAMBDA r : ~_row_to_m(r) /\ ~_row_to_n(r)),
      assigned_monsters |-> SelectSeq(cleaned, LAMBDA r : _row_to_m(r)),
      assigned_npcs     |-> SelectSeq(cleaned, LAMBDA r : _row_to_n(r) /\ ~_row_to_m(r)) ]

\* the first routing loop over the named rows
Route(cleaned) ==
    [ unassigned        |-> SelectSeq(cleaned, LAMBDA r : ~_row_to_m(r) /\ ~_row_to_n(r)),
      assigned_monsters |-> SelectSeq(cleaned, LAMBDA r : _row_to_m(r)),
      assigned_npcs     |-> SelectSeq(cleaned, LAMBDA r : _row_to_n(r)) ]

_row_label(r) ==
    LET nm == _clean(Get(r, "name"))
        ct == _clean(Get(r, "creature_type"))
        cr == _normalize_cr(_clean(Get(r, "cr")))
    IN  Join(<< nm >> \o (IF ct # "" THEN << ct >> ELSE << >>)
                      \o (IF cr # "" THEN << "CR " \o cr >> ELSE << >>), " - ")

editor_rows(unassigned) ==
    [idx \in DOMAIN unassigned |->
        [ row |-> idx, item |-> _row_label(unassigned[idx]),
          to_monsters |-> FALSE, to_npcs |-> FALSE ]]

\* the four bulk buttons; at most one is pressed in a run
Bulk(rows_state, pressed) ==
    [i \in DOMAIN rows_state |->
        IF pressed = "All -> Monsters"
          THEN [rows_state[i] EXCEPT !.to_monsters = TRUE, !.to_npcs = FALSE]
        ELSE IF pressed = "All -> NPCs"
          THEN [rows_state[i] EXCEPT !.to_monsters = FALSE, !.to_npcs = TRUE]
        ELSE IF pressed = "All -> Both"
          THEN [rows_state[i] EXCEPT !.to_monsters = TRUE, !.to_npcs = TRUE]
        ELSE IF pressed = "Clear All"
          THEN [rows_state[i] EXCEPT !.to_monsters = FALSE, !.to_npcs = FALSE]
        ELSE rows_state[i]]

\* A keyed widget is rendered with default `value`.  Its stored state is
\* kept when the build identifies the widget by its key, or when the default
\* is the one it was created with; otherwise it is a new widget showing
\* `value`.
Render(w, key, value) ==
    IF key \in DOMAIN w /\ (key_identity \/ w[key].default = value)
    THEN w[key]
    ELSE [default |-> value, val |-> value]

KeyM(rr) == "u_m_" \o ToString(rr.row)

KeyN(rr) == "u_n_" \o ToString(rr.row)

\* the per-row checkboxes: the widgets rendered, and the rows they return
CheckboxWidgets(rows_state, w) ==
    [k \in { KeyM(rows_state[i]) : i \in DOMAIN rows_state }
           \cup { KeyN(rows_state[i]) : i \in DOMAIN rows_state } |->
        LET i == CHOOSE j \in DOMAIN rows_state :
                    k \in {KeyM(rows_state[j]), KeyN(rows_state[j])}
        IN  IF k = KeyM(rows_state[i])
            THEN Render(w, k, rows_state[i].to_monsters)
            ELSE Render(w, k, rows_state[i].to_npcs)]

Checked(rows_state, wchk) ==
    [i \in DOMAIN rows_state |->
        [rows_state[i] EXCEPT !.to_monsters = wchk[KeyM(rows_state[i])].val,
                              !.to_npcs     = wchk[KeyN(rows_state[i])].val]]

\* the write-back loop: row i of the unassigned list takes the flags of
\* entry i of the editor state
WriteBack(unassigned, rows_state) ==
    [i \in DOMAIN unassigned |->
        IF i <= Len(rows_state)
        THEN SetCol(SetCol(unassigned[i],
                 "to_monsters", IF rows_state[i].to_monsters THEN "TRUE" ELSE ""),
                 "to_npcs", IF rows_state[i].to_npcs THEN "TRUE" ELSE "")
        ELSE unassigned[i]]

\* merge of two widget maps with disjoint keys
Widgets2(a, b) == [k \in DOMAIN a \cup DOMAIN b |-> IF k \in DOMAIN a THEN a[k] ELSE b[k]]

\* a run that goes into the transaction whenever dry run is off
EndStageEager(dry_run, pressed) ==
    IF dry_run THEN "DryRun" ELSE "Committing"

\* where the run ends after the preview: at the dry-run return, at the
\* Apply Import button when it was not pressed, or in the transaction
EndStage(dry_run, pressed) ==
    IF dry_run THEN "DryRun"
    ELSE IF pressed = APPLY_BUTTON THEN "Committing"
    ELSE "PlanReady"

\* Section 3 and after: the settings widgets, the plans, and the stage at
\* which the run ends.  am and an are the final candidate lists, wprev the
\* widgets rendered so far; stage "Committing" is a run that goes on into
\* the transaction.
Settings(ss, w, pressed, routed, am, an, wprev, wdup, wnb, wdry) ==
    [ session_state |-> ss,
      widgets |->
          Widgets2(wprev,
              IF wdup.val = OVERWRITE
              THEN ("dup_mode_bulk" :> wdup) @@ ("overwrite_nonblank_bulk" :> wnb)
                     @@ ("dryrun_bulk" :> wdry)
              ELSE ("dup_mode_bulk" :> wdup) @@ ("dryrun_bulk" :> wdry)),
      run |-> [routed EXCEPT
                 !.stage = EndStage(wdry.val, pressed),
                 !.assigned_monsters = am,
                 !.assigned_npcs = an,
                 !.dup_mode = wdup.val,
                 !.overwrite_nonblank_only = IF wdup.val = OVERWRITE THEN wnb.val ELSE FALSE,
                 !.dry_run = wdry.val,
                 !.snapshots = (IF am # << >> THEN 1 ELSE 0) + (IF an # << >> THEN 1 ELSE 0),
                 !.m_plan = IF am # << >> THEN _plan_import("monster", am, wdup.val)
                            ELSE EmptyPlan,
                 !.n_plan = IF an # << >> THEN _plan_import("npc", an, wdup.val)
                            ELSE EmptyPlan] ]

Proceed(ss, w, pressed, routed, am, an, wprev) ==
    Settings(ss, w, pressed, routed, am, an, wprev,
             Render(w, "dup_mode_bulk", SKIP),
             Render(w, "overwrite_nonblank_bulk", TRUE),
             Render(w, "dryrun_bulk", TRUE))

\* the end of the resolver: the still_unassigned check, the write-back and
\* the routing of the resolved rows
Resolved(w, pressed, routed, rt, rows_state, wchk, resolved) ==
    IF \E i \in DOMAIN rows_state : ~rows_state[i].to_monsters /\ ~rows_state[i].to_npcs
      THEN [ session_state |-> (EDITOR_KEY :> rows_state), widgets |-> wchk,
             run |-> [routed EXCEPT
                        !.stage = "AwaitingResolution",
                        !.still_unassigned =
                            Len(SelectSeq(rows_state,
                                   LAMBDA rr : ~rr.to_monsters /\ ~rr.to_npcs))] ]
    ELSE IF Len(rows_state) > Len(rt.unassigned)
      THEN [ session_state |-> (EDITOR_KEY :> rows_state), widgets |-> wchk,
             run |-> [routed EXCEPT !.stage = "Crashed"] ]
    ELSE Proceed((EDITOR_KEY :> rows_state), w, pressed,
                 [routed EXCEPT !.unassigned = resolved],
                 rt.assigned_monsters
                    \o SelectSeq(resolved, LAMBDA r : _truthy(Get(r, "to_monsters"))),
                 rt.assigned_npcs
                    \o SelectSeq(resolved, LAMBDA r : _truthy(Get(r, "to_npcs"))),
                 wchk)

Checkboxes(w, pressed, routed, rt, rows_pressed, wchk) ==
    Resolved(w, pressed, routed, rt, Checked(rows_pressed, wchk), wchk,
             WriteBack(rt.unassigned, Checked(rows_pressed, wchk)))

\* the resolver: the editor state is taken from the session when it is
\* there, the pressed bulk button is applied, the checkboxes are rendered
Resolver(ss, w, pressed, routed, rt) ==
    Checkboxes(w, pressed, routed, rt,
               Bulk(IF EDITOR_KEY \in DOMAIN ss THEN ss[EDITOR_KEY]
                    ELSE editor_rows(rt.unassigned), pressed),
               CheckboxWidgets(
                   Bulk(IF EDITOR_KEY \in DOMAIN ss THEN ss[EDITOR_KEY]
                        ELSE editor_rows(rt.unassigned), pressed), w))

\* candidate lists that are kept from the run before and appended to
RoutedAccumulating(ss, w, pressed, read, rt) ==
    LET acc == [rt EXCEPT !.assigned_monsters = run.assigned_monsters \o rt.assigned_monsters,
                          !.assigned_npcs = run.assigned_npcs \o rt.assigned_npcs]
    IN  IF rt.unassigned # << >>
        THEN Resolver(ss, w, pressed,
                      [read EXCEPT !.unassigned = rt.unassigned, !.resolver = TRUE,
                                   !.routed_unassigned = rt.unassigned,
                                   !.routed_monsters = rt.assigned_monsters,
                                   !.routed_npcs = rt.assigned_npcs,
                                   !.assigned_monsters = acc.assigned_monsters,
                                   !.assigned_npcs = acc.assigned_npcs],
                      acc)
        ELSE Proceed(ss, w, pressed,
                     [read EXCEPT !.routed_monsters = rt.assigned_monsters,
                                  !.routed_npcs = rt.assigned_npcs],
                     acc.assigned_monsters, acc.assigned_npcs, << >>)

Routed(ss, w, pressed, read, rt) ==
    IF rt.unassigned # << >>
    THEN Resolver(ss, w, pressed,
                  [read EXCEPT !.unassigned = rt.unassigned, !.resolver = TRUE,
                               !.routed_unassigned = rt.unassigned,
                               !.routed_monsters = rt.assigned_monsters,
                               !.routed_npcs = rt.assigned_npcs,
                               !.assigned_monsters = rt.assigned_monsters,
                               !.assigned_npcs = rt.assigned_npcs],
                  rt)
    ELSE Proceed(ss, w, pressed,
                 [read EXCEPT !.routed_monsters = rt.assigned_monsters,
                              !.routed_npcs = rt.assigned_npcs],
                 rt.assigned_monsters, rt.assigned_npcs, << >>)

\* a page that goes on to the routing without named rows
NamedNoHalt(ss, w, pressed, warnings, cleaned) ==
    Routed(ss, w, pressed,
           [BlankRun EXCEPT !.pressed = pressed, !.warnings = warnings,
                            !.cleaned = cleaned],
           Route(cleaned))

Named(ss, w, pressed, warnings, cleaned) ==
    IF cleaned = << >>
    THEN [ session_state |-> ss, widgets |-> << >>,
           run |-> [BlankRun EXCEPT !.stage = "NoNamedRows", !.pressed = pressed,
                                    !.warnings = warnings] ]
    ELSE Routed(ss, w, pressed,
                [BlankRun EXCEPT !.pressed = pressed, !.warnings = warnings,
                                 !.cleaned = cleaned],
                Route(cleaned))

\* a page that keeps the rows without a name
ParsedUnfiltered(ss, w, pressed, rd) ==
    Named(ss, w, pressed, rd.warnings, rd.rows)

Parsed(ss, w, pressed, rd) ==
    Named(ss, w, pressed, rd.warnings,
          SelectSeq(rd.rows, LAMBDA r : _clean(Get(r, "name")) # ""))

\* One run of page_bulk_import on file u with session state ss and widget
\* state w, `pressed` being the button whose click started the run ("" for
\* none).  The result is the session state, the widgets the run rendered
\* and what the run computed and showed.
Script(u, ss, w, pressed) ==
    IF ~u.present
    THEN [ session_state |-> ss, widgets |-> << >>,
           run |-> [BlankRun EXCEPT !.pressed = pressed] ]
    ELSE Parsed(ss, w, pressed, _read_csv(u))

(***************************************************************************)
(* Import executor: the transaction of Apply Import                        *)
(***************************************************************************)
\* the work of one session on one table: the rows of the table as the
\* session holds them, the objects added to the session, and the counters
WorkStart(table) == [table |-> table, added |-> << >>, inserted |-> 0, updated |-> 0]

\* s.scalar(select(Model).where(Model.name == nm)): the position of the
\* record in the table, 0 when there is none.  The session does not
\* autoflush, so objects added to it and not yet flushed are not found.
Lookup(table, nm) ==
    IF \E i \in DOMAIN table : table[i]["name"] = nm
    THEN Min({ i \in DOMAIN table : table[i]["name"] = nm })
    ELSE 0

\* body of the loop over to_update
UpdateRow(k, r, overwrite_nonblank_only) ==
    LET nm == _clean(Get(r, "name"))
        at == Lookup(k.table, nm)
    IN  IF at = 0
        THEN [k EXCEPT !.added = Append(k.added, _apply_row_to_model(NewObj(nm), r, FALSE)),
                       !.inserted = k.inserted + 1]
        ELSE [k EXCEPT !.table[at] =
                           _apply_row_to_model(k.table[at], r, overwrite_nonblank_only),
                       !.updated = k.updated + 1]

\* an insert that is made but not counted
InsertRowUncounted(k, r) ==
    LET nm == _clean(Get(r, "name")) IN
    [k EXCEPT !.added = Append(k.added, _apply_row_to_model(NewObj(nm), r, FALSE))]

\* body of the loop over to_insert
InsertRow(k, r) ==
    LET nm == _clean(Get(r, "name")) IN
    [k EXCEPT !.added = Append(k.added, _apply_row_to_model(NewObj(nm), r, FALSE)),
              !.inserted = k.inserted + 1]

RECURSIVE UpdateLoop(_, _, _)
UpdateLoop(k, rows, overwrite_nonblank_only) ==
    IF rows = << >> THEN k
    ELSE UpdateLoop(UpdateRow(k, Head(rows), overwrite_nonblank_only), Tail(rows),
                    overwrite_nonblank_only)

RECURSIVE InsertLoop(_, _)
InsertLoop(k, rows) ==
    IF rows = << >> THEN k ELSE InsertLoop(InsertRow(k, Head(rows)), Tail(rows))

\* the block of one entity type inside the session
TableWork(table, assigned, plan, dup_mode, overwrite_nonblank_only) ==
    IF assigned = << >> THEN WorkStart(table)
    ELSE InsertLoop(
           IF dup_mode = OVERWRITE
           THEN UpdateLoop(WorkStart(table), plan.to_update, overwrite_nonblank_only)
           ELSE WorkStart(table),
           plan.to_insert)

\* a table without the unique constraint on name
UniqueUnchecked(k) == TRUE

\* a constraint that compares the added objects with each other only
UniqueAmongAdded(k) ==
    \A i, j \in DOMAIN k.added : i # j => k.added[i]["name"] # k.added[j]["name"]

\* the unique constraint on name (uq_monster_name, uq_npc_name) accepts the
\* flush of the added objects
UniqueOk(k) ==
    /\ \A i, j \in DOMAIN k.added : i # j => k.added[i]["name"] # k.added[j]["name"]
    /\ \A i \in DOMAIN k.added : k.added[i]["name"] \notin NamesOf(k.table)

\* a flush that leaves only the added objects in the table
FlushedAddedOnly(k) == k.added

\* the table after the flush
Flushed(k) == k.table \o k.added

\* a commit per entity type: the monsters are written although the NPCs fail
TransactionPerTable(st, r) ==
    LET km == TableWork(st["monster"], r.assigned_monsters, r.m_plan, r.dup_mode,
                        r.overwrite_nonblank_only)
        kn == TableWork(st["npc"], r.assigned_npcs, r.n_plan, r.dup_mode,
                        r.overwrite_nonblank_only)
    IN  [ ok |-> UniqueOk(km) /\ UniqueOk(kn),
          store |-> [monster |-> IF UniqueOk(km) THEN Flushed(km) ELSE st["monster"],
                     npc |-> IF UniqueOk(kn) THEN Flushed(kn) ELSE st["npc"]],
          report |-> NoReport ]

\* s.commit(): the outcome of the transaction on the store st for the run r
Transaction(st, r) ==
    LET km == TableWork(st["monster"], r.assigned_monsters, r.m_plan, r.dup_mode,
                        r.overwrite_nonblank_only)
        kn == TableWork(st["npc"], r.assigned_npcs, r.n_plan, r.dup_mode,
                        r.overwrite_nonblank_only)
    IN  IF UniqueOk(km) /\ UniqueOk(kn)
        THEN [ ok |-> TRUE,
               store |-> [monster |-> Flushed(km), npc |-> Flushed(kn)],
               report |-> [ inserted_m |-> km.inserted, updated_m |-> km.updated,
                            skipped_m |-> Len(r.m_plan.skipped_dupes),
                            inserted_n |-> kn.inserted, updated_n |-> kn.updated,
                            skipped_n |-> Len(r.n_plan.skipped_dupes) ] ]
        ELSE [ ok |-> FALSE, store |-> st, report |-> NoReport ]

(***************************************************************************)
(* Specification of the planner alone: any snapshot, rows and policy       *)
(***************************************************************************)
MaxPlanRows == 3

PlanNames == {"", "G", " G ", "G (1)"}

StoredNames == {"G", "G (1)"}

RECURSIVE SetToSeq(_)
SetToSeq(S) ==
    IF S = {} THEN << >>
    ELSE LET x == CHOOSE y \in S : TRUE IN << x >> \o SetToSeq(S \ {x})

TableOf(names) == LET q == SetToSeq(names) IN [i \in DOMAIN q |-> DefaultRecord(q[i])]

\* candidate rows: a name cell and the line number of the row in the file
PlanRowsOf(names) == [i \in DOMAIN names |-> [name |-> names[i], notes |-> ToString(i)]]

PlanInputs ==
    UNION { { PlanRowsOf(names) : names \in [1..n -> PlanNames] } : n \in 0..MaxPlanRows }

\* the frame of a call: its arguments, its position, its local variables,
\* and what the call before it returned for the same arguments
IdleFrame ==
    [ pc |-> "idle", kind |-> "monster", cleaned_rows |-> << >>, dup_mode |-> SKIP,
      i |-> 0, p |-> EmptyPlan, calls |-> 0, prev |-> EmptyPlan ]

PlanInit ==
    /\ store \in { [monster |-> TableOf(m), npc |-> TableOf(n)] :
                     m \in SUBSET StoredNames, n \in {{}, {"G"}} }
    /\ pf = IdleFrame
    /\ af = IdleApply
    /\ cf = IdleCell
    /\ peer = IdlePeer
    /\ PageIdle

\* _plan_import is called: the snapshot is read, the lists are empty
PlanCall ==
    /\ pf.pc = "idle"
    /\ \E kind \in KINDS, rows \in PlanInputs, mode \in DUP_MODES :
         pf' = [ pc |-> "loop", kind |-> kind, cleaned_rows |-> rows, dup_mode |-> mode,
                 i |-> 0, p |-> PlanStart(_existing_names(kind)),
                 calls |-> 1, prev |-> EmptyPlan ]
    /\ UNCHANGED << store, af, cf, pageVars, peer >>

\* _plan_import is called a second time with the arguments of the first call
PlanAgain ==
    /\ pf.pc = "returned"
    /\ pf.calls = 1
    /\ pf' = [pf EXCEPT !.pc = "loop", !.i = 0, !.p = PlanStart(_existing_names(pf.kind)),
                        !.calls = 2, !.prev = pf.p]
    /\ UNCHANGED << store, af, cf, pageVars, peer >>

\* the loop body runs on the next row
PlanIter ==
    /\ pf.pc = "loop"
    /\ pf.i < Len(pf.cleaned_rows)
    /\ pf' = [pf EXCEPT !.i = pf.i + 1,
                        !.p = PlanRow(pf.p, pf.cleaned_rows[pf.i + 1], pf.dup_mode)]
    /\ UNCHANGED << store, af, cf, pageVars, peer >>

\* the loop is over: the four lists are returned
PlanReturn ==
    /\ pf.pc = "loop"
    /\ pf.i = Len(pf.cleaned_rows)
    /\ pf' = [pf EXCEPT !.pc = "returned"]
    /\ UNCHANGED << store, af, cf, pageVars, peer >>

PlanNext == PlanCall \/ PlanAgain \/ PlanIter \/ PlanReturn

PlanSpec == PlanInit /\ [][PlanNext]_vars

(***************************************************************************)
(* Properties of the planner                                               *)
(***************************************************************************)
RowName(r) == _clean(Get(r, "name"))

\* C1: in the plan _plan_import returns, the names of the to_insert rows are
\* pairwise distinct and none of them is in the existing-name snapshot, and
\* the (cleaned) name of every to_update row is in the snapshot.
C1_PlanNamesInvariant ==
    pf.pc = "returned" =>
        LET ins == pf.p.to_insert
            upd == pf.p.to_update
        IN  /\ \A i, j \in DOMAIN ins : i # j => ins[i]["name"] # ins[j]["name"]
            /\ \A i \in DOMAIN ins : ins[i]["name"] \notin _existing_names(pf.kind)
            /\ \A i \in DOMAIN upd : RowName(upd[i]) \in _existing_names(pf.kind)

\* a returned plan that both updates and inserts, with a rename among the inserts
C1_Witness ==
    /\ pf.pc = "returned"
    /\ Len(pf.p.to_insert) >= 2
    /\ Len(pf.p.to_update) >= 1
    /\ pf.p.renamed # << >>

\* C7: under Rename, when the existing names are exactly {n} and all k rows
\* are named n, to_insert is the rows renamed "n (1)" .. "n (k)" in file
\* order, renamed is [(n, "n (1)"), .., (n, "n (k)")], and to_update and
\* skipped are empty.
C7_RenameSequence ==
    \A n \in StoredNames :
        ( /\ pf.pc = "returned"
          /\ pf.dup_mode = RENAME
          /\ _existing_names(pf.kind) = {n}
          /\ \A i \in DOMAIN pf.cleaned_rows : RowName(pf.cleaned_rows[i]) = n )
        =>
        ( /\ pf.p.to_insert =
                [i \in DOMAIN pf.cleaned_rows |->
                    SetCol(pf.cleaned_rows[i], "name", n \o " (" \o ToString(i) \o ")")]
          /\ pf.p.renamed =
                [i \in DOMAIN pf.cleaned_rows |-> << n, n \o " (" \o ToString(i) \o ")" >>]
          /\ pf.p.to_update = << >>
          /\ pf.p.skipped_dupes = << >> )

\* existing names {"G"} and at least two rows named G, planned under Rename
C7_Witness ==
    /\ pf.pc = "returned"
    /\ pf.dup_mode = RENAME
    /\ _existing_names(pf.kind) = {"G"}
    /\ Len(pf.cleaned_rows) >= 2
    /\ \A i \in DOMAIN pf.cleaned_rows : RowName(pf.cleaned_rows[i]) = "G"
    /\ Len(pf.p.to_insert) = Len(pf.cleaned_rows)

\* C8: under Skip, a row whose name is in the snapshot appends its name to
\* skipped (once per occurrence), goes to neither to_insert nor to_update,
\* and leaves the Name Uniqueness Set unchanged.
C8_SkipPerOccurrence ==
    [][ ( /\ pf.pc = "loop"
          /\ pf'.i = pf.i + 1
          /\ pf.dup_mode = SKIP
          /\ RowName(pf.cleaned_rows[pf.i + 1]) \in _existing_names(pf.kind) )
        =>
        ( /\ pf'.p.skipped_dupes =
                Append(pf.p.skipped_dupes, RowName(pf.cleaned_rows[pf.i + 1]))
          /\ pf'.p.to_insert = pf.p.to_insert
          /\ pf'.p.to_update = pf.p.to_update
          /\ pf'.p.taken = pf.p.taken ) ]_vars

\* two rows with the same existing name were skipped: two entries
C8_Witness ==
    /\ pf.pc = "returned"
    /\ pf.dup_mode = SKIP
    /\ pf.p.skipped_dupes = << "G", "G" >>
    /\ pf.p.to_insert = << >>

WithOtherAttributes(obj, id, saves) ==
    [c \in DOMAIN obj \cup {"id", "saves"} |->
        IF c = "id" THEN id ELSE IF c = "saves" THEN saves ELSE obj[c]]

\* records as they can stand in the store, and a freshly constructed object
ApplyObjects ==
    { WithOtherAttributes(
          [DefaultRecord("G") EXCEPT !["has_shield"] = sh, !["str_score"] = sc,
                                     !["cr"] = cr, !["creature_type"] = ct],
          7, "Dex +2") :
        sh \in {0, 1}, sc \in {0, 8, 10}, cr \in {"", "1/8"}, ct \in {"", "beast"} }
    \cup { WithOtherAttributes(NewObj("G"), NoneInt, "") }

\* rows of an upload: mapped columns, the destination columns and a column
\* the template does not know
ApplyRows ==
    { [ name |-> nm, creature_type |-> ct, cr |-> cr, has_shield |-> sh,
        str_score |-> sc, to_monsters |-> "TRUE", to_npcs |-> "", homebrew |-> "x",
        id |-> "99", saves |-> "Str +1" ] :
        nm \in {"G", " G ", "H"}, ct \in {"", " ", "undead"}, cr \in {"", "8-Jan"},
        sh \in {"", "yes"}, sc \in {"", "abc", "3.9", "0"} }
    \cup { [ name |-> "G" ] }

ApplyInit ==
    /\ store = [monster |-> << >>, npc |-> << >>]
    /\ pf = IdleFrame
    /\ af = IdleApply
    /\ cf = IdleCell
    /\ peer = IdlePeer
    /\ PageIdle

\* _apply_row_to_model runs on an object
ApplyCall ==
    /\ af.pc = "idle"
    /\ \E obj \in ApplyObjects, row \in ApplyRows, flag \in BOOLEAN :
         af' = [ pc |-> "returned", before |-> obj, row |-> row,
                 overwrite_nonblank_only |-> flag,
                 obj |-> _apply_row_to_model(obj, row, flag) ]
    /\ UNCHANGED << store, pf, cf, pageVars, peer >>

ApplyNext == ApplyCall

ApplySpec == ApplyInit /\ [][ApplyNext]_vars

\* an incoming cell is blank when nothing is left of it after trimming
Blank(row, col) == _clean(Get(row, col)) = ""

\* C5: an update with overwrite_nonblank_only = true keeps every field whose
\* incoming cell is blank, has_shield and the ability scores included.
C5_BlankKeepsField ==
    ( /\ af.pc = "returned"
      /\ af.overwrite_nonblank_only
      /\ af.before["id"] # NoneInt )
    => \A col \in Range(DATA_COLUMNS) \ {"name"} :
          Blank(af.row, col) => af.obj[col] = af.before[col]

(***************************************************************************)
(* Specification of the page: the user's session, the store, other actors  *)
(***************************************************************************)
MaxRows == 2

MaxExternal == 1

HEADER == << "name", "to_monsters", "to_npcs", "cr" >>

\* lines of a file: a row without destination, a row for the monsters, a
\* row for both destinations, a row for the NPCs, and a row without a name
LineU == << "G", "", "", "" >>
LineM == << "G", "TRUE", "", "8-Jan" >>
LineB == << "G", "TRUE", "TRUE", "" >>
LineN == << " G ", "0", " Yes ", "" >>
LineE == << "", "", "", "" >>

AssignedLines == {LineM, LineB, LineN, LineE}

\* n lines that all are `body`, but for the last, which is `last`
LinesOf(body, last, n) == [i \in 1..n |-> IF i = n THEN last ELSE body]

FileOf(lines) == [present |-> TRUE, fieldnames |-> HEADER, lines |-> lines]

\* a file without header, a file without a name column, and a file without
\* destination columns
OddFiles ==
    { [present |-> TRUE, fieldnames |-> << >>, lines |-> << >>],
      [present |-> TRUE, fieldnames |-> << "cr" >>, lines |-> << << "1/8" >> >>],
      [present |-> TRUE, fieldnames |-> << " name " >>, lines |-> << << " G " >> >>] }

\* the files of a run: up to MaxRows lines of one kind, the last of which
\* may be a row without destination
Files ==
    UNION { { FileOf(LinesOf(l, last, n)) : last \in {l, LineU}, n \in 0..MaxRows } :
              l \in AssignedLines }
    \cup OddFiles

\* the files of a session that resolves destinations: one row without
\* destination, two such rows, and a row for the monsters before one
SessionFiles ==
    { FileOf(<< LineU >>), FileOf(<< LineU, LineU >>), FileOf(<< LineM, LineU >>) }

Init ==
    /\ store \in { [monster |-> TableOf(m), npc |-> TableOf({})] : m \in {{}, {"G"}} }
    /\ upload = NoUpload
    /\ session_state = << >>
    /\ widgets = << >>
    /\ key_identity \in BOOLEAN
    /\ run = BlankRun
    /\ ext = 0
    /\ pf = IdleFrame
    /\ af = IdleApply
    /\ cf = IdleCell
    /\ peer = IdlePeer

\* the script runs on file u with widget state w after a click on `pressed`
Rerun(u, w, pressed) ==
    \E out \in { Script(u, session_state, w, pressed) } :
    /\ upload' = u
    /\ session_state' = out.session_state
    /\ widgets' = out.widgets
    /\ run' = out.run
    /\ UNCHANGED << store, key_identity, ext, pf, af, cf, peer >>

\* the run is inside its transaction
Busy == run.stage = "Committing"

\* the import is still open: the page waits for the user, nothing was committed
Open == run.stage \notin {"Committing", "Committed", "CommitFailed"}

\* the user puts a file into the empty uploader
Upload ==
    /\ ~upload.present
    /\ \E f \in Files : Rerun(f, widgets, "")

\* the user puts a file into the uploader, replacing the one it held
Replace ==
    /\ \E f \in SessionFiles \ {upload} : Rerun(f, widgets, "")

\* the user removes the file from the uploader
RemoveUpload ==
    /\ upload.present
    /\ Rerun(NoUpload, widgets, "")

\* the user presses one of the bulk assign buttons
PressBulk ==
    /\ Open
    /\ run.resolver
    /\ \E b \in BULK_BUTTONS : Rerun(upload, widgets, b)

\* the user ticks or unticks a per-row checkbox
ToggleCheckbox ==
    /\ Open
    /\ \E k \in DOMAIN widgets \ SETTING_KEYS :
         Rerun(upload, [widgets EXCEPT ![k].val = ~widgets[k].val], "")

\* the user picks another conflict policy
ChooseDupMode ==
    /\ Open
    /\ "dup_mode_bulk" \in DOMAIN widgets
    /\ \E m \in DUP_MODES \ {widgets["dup_mode_bulk"].val} :
         Rerun(upload, [widgets EXCEPT !["dup_mode_bulk"].val = m], "")

\* the user toggles "Overwrite only non-blank fields"
ToggleNonblank ==
    /\ Open
    /\ "overwrite_nonblank_bulk" \in DOMAIN widgets
    /\ Rerun(upload, [widgets EXCEPT !["overwrite_nonblank_bulk"].val =
                                        ~widgets["overwrite_nonblank_bulk"].val], "")

\* the user toggles "Dry run"
ToggleDryRun ==
    /\ Open
    /\ "dryrun_bulk" \in DOMAIN widgets
    /\ Rerun(upload, [widgets EXCEPT !["dryrun_bulk"].val = ~widgets["dryrun_bulk"].val], "")

\* the user presses Apply Import, which the page shows below the preview
\* when dry run is off: the run plans again and enters the session
PressApply ==
    /\ run.stage = "PlanReady"
    /\ Rerun(upload, widgets, APPLY_BUTTON)

\* the session of the run applies the plan and commits, or fails and is
\* rolled back when it is closed
Commit ==
    /\ run.stage = "Committing"
    /\ \E t \in { Transaction(store, run) } :
         /\ store' = t.store
         /\ run' = [run EXCEPT !.stage = IF t.ok THEN "Committed" ELSE "CommitFailed",
                               !.report = t.report]
    /\ UNCHANGED << upload, session_state, widgets, key_identity, ext, pf, af, cf, peer >>

\* delete at position i
RemoveAt(q, i) == SubSeq(q, 1, i - 1) \o SubSeq(q, i + 1, Len(q))

\* another actor of the application deletes a record while the run is
\* between its plan and its transaction
ExternalDelete ==
    /\ Busy
    /\ ext < MaxExternal
    /\ \E kind \in KINDS : \E i \in DOMAIN store[kind] :
         store' = [store EXCEPT ![kind] = RemoveAt(store[kind], i)]
    /\ ext' = ext + 1
    /\ UNCHANGED << upload, session_state, widgets, key_identity, run, pf, af, cf, peer >>

\* another actor of the application creates a record under a free name
\* while the run is between its plan and its transaction
ExternalCreate ==
    /\ Busy
    /\ ext < MaxExternal
    /\ \E kind \in KINDS : \E nm \in StoredNames \ NamesOf(store[kind]) :
         store' = [store EXCEPT ![kind] = Append(store[kind], DefaultRecord(nm))]
    /\ ext' = ext + 1
    /\ UNCHANGED << upload, session_state, widgets, key_identity, run, pf, af, cf, peer >>

\* one import: the run of the page from the upload of a file to the commit,
\* with the other actors of the application
Next ==
    \/ Upload
    \/ PressBulk
    \/ ToggleCheckbox
    \/ ChooseDupMode
    \/ ToggleNonblank
    \/ ToggleDryRun
    \/ PressApply
    \/ Commit
    \/ ExternalDelete
    \/ ExternalCreate

Spec == Init /\ [][Next]_vars

\* a session in which the user changes the file and resolves destinations,
\* and leaves the settings as the page shows them (dry run on)
SessionInit ==
    /\ store = [monster |-> << >>, npc |-> << >>]
    /\ upload = NoUpload
    /\ session_state = << >>
    /\ widgets = << >>
    /\ key_identity \in BOOLEAN
    /\ run = BlankRun
    /\ ext = 0
    /\ pf = IdleFrame
    /\ af = IdleApply
    /\ cf = IdleCell
    /\ peer = IdlePeer

SessionNext ==
    \/ Replace
    \/ RemoveUpload
    \/ PressBulk
    \/ ToggleCheckbox

SessionSpec == SessionInit /\ [][SessionNext]_vars

(***************************************************************************)
(* Properties of the page                                                  *)
(***************************************************************************)
\* the run got as far as planning
Planned == run.stage \in {"DryRun", "PlanReady", "Committing", "Committed", "CommitFailed"}

\* C2: over any sequence of uploads, bulk-assign presses and checkbox
\* changes, planning is never reached while a named row of the current
\* upload that the routing left without destination still has both
\* destination flags false.
C2_NoRowLeftUnassigned ==
    Planned =>
        \A i \in DOMAIN run.unassigned :
            _row_to_m(run.unassigned[i]) \/ _row_to_n(run.unassigned[i])

\* every row of the list has a record of its name in the table, with the
\* fields the row gives a new record
InsertsVisible(table, rows) ==
    \A i \in DOMAIN rows :
        \E j \in DOMAIN table :
            table[j] = _apply_row_to_model(NewObj(RowName(rows[i])), rows[i], FALSE)

\* every row of the list has a record of its name in the table
UpdatesVisible(table, rows) ==
    \A i \in DOMAIN rows : RowName(rows[i]) \in NamesOf(table)

\* C3: the commit of a run is atomic: either every insert and update of both
\* destinations is visible in the store after it, or the run failed and the
\* store is exactly as it was before the step.
C3_CommitAtomic ==
    [][ ( run.stage = "Committing" /\ run'.stage # "Committing" )
        =>
        \/ /\ run'.stage = "Committed"
           /\ InsertsVisible(store'["monster"], run.m_plan.to_insert)
           /\ InsertsVisible(store'["npc"], run.n_plan.to_insert)
           /\ UpdatesVisible(store'["monster"], run.m_plan.to_update)
           /\ UpdatesVisible(store'["npc"], run.n_plan.to_update)
        \/ /\ run'.stage = "CommitFailed"
           /\ store' = store ]_vars

\* a run that had inserts for both destinations failed at its commit
C3_Witness ==
    /\ run.stage = "CommitFailed"
    /\ run.m_plan.to_insert # << >>
    /\ run.n_plan.to_insert # << >>

\* C4: the run writes the store only in its commit step, which is entered
\* only with dry run off and Apply Import pressed; every other step of the
\* user leaves the store as it is (the other writes are those of the other
\* actors of the application).
C4_StoreWrittenOnlyAtCommit ==
    [][ store' # store
        =>
        \/ ext' = ext + 1
        \/ /\ run.stage = "Committing"
           /\ run.pressed = APPLY_BUTTON
           /\ ~run.dry_run
           /\ run.m_plan.to_insert \o run.m_plan.to_update
                 \o run.n_plan.to_insert \o run.n_plan.to_update # << >>
           /\ run'.stage = "Committed" ]_vars

\* a run committed an insert after Apply Import was pressed
C4_Witness ==
    /\ run.stage = "Committed"
    /\ run.pressed = APPLY_BUTTON
    /\ run.report.inserted_m > 0
    /\ store["monster"] # << >>

\* positions of the to_update rows whose record is not in the store
Vanished(kind, plan) ==
    { i \in DOMAIN plan.to_update : RowName(plan.to_update[i]) \notin _existing_names(kind) }

\* no record of another actor stands in the way of an insert of the plan
InsertsFree(kind, plan) ==
    \A i \in DOMAIN plan.to_insert : plan.to_insert[i]["name"] \notin _existing_names(kind)

\* C6: at commit under Overwrite, whatever the to_update lists hold, a
\* to_update row whose record has vanished is inserted as a fresh record of
\* that name and the run commits.
C6_VanishedUpdateInserted ==
    [][ ( /\ run.stage = "Committing"
          /\ run'.stage # "Committing"
          /\ run.dup_mode = OVERWRITE
          /\ Vanished("monster", run.m_plan) \cup Vanished("npc", run.n_plan) # {}
          /\ InsertsFree("monster", run.m_plan)
          /\ InsertsFree("npc", run.n_plan) )
        =>
        ( /\ run'.stage = "Committed"
          /\ UpdatesVisible(store'["monster"], run.m_plan.to_update)
          /\ UpdatesVisible(store'["npc"], run.n_plan.to_update) ) ]_vars

\* number of occurrences of r in the list q
Count(q, r) == Cardinality({ i \in DOMAIN q : q[i] = r })

\* C10: every named row is in the monsters candidate list iff its
\* to_monsters flag parses true, in the NPCs candidate list iff its to_npcs
\* flag parses true, and in the unassigned list iff both parse false; a row
\* without a destination column counts as false for it.
C10_Routing ==
    /\ Range(run.routed_monsters) \cup Range(run.routed_npcs)
          \cup Range(run.routed_unassigned) \subseteq Range(run.cleaned)
    /\ \A r \in Range(run.cleaned) :
        LET tm == "to_monsters" \in DOMAIN r /\ _truthy(r["to_monsters"])
            tn == "to_npcs" \in DOMAIN r /\ _truthy(r["to_npcs"])
        IN  /\ Count(run.routed_monsters, r) = IF tm THEN Count(run.cleaned, r) ELSE 0
            /\ Count(run.routed_npcs, r) = IF tn THEN Count(run.cleaned, r) ELSE 0
            /\ Count(run.routed_unassigned, r) =
                   IF ~tm /\ ~tn THEN Count(run.cleaned, r) ELSE 0

\* a row with both flags true was routed to both candidate lists, next to a
\* row that went to the unassigned list
C10_Witness ==
    /\ \E r \in Range(run.routed_monsters) : r \in Range(run.routed_npcs)
    /\ run.routed_unassigned # << >>

\* both destination cells of the row are empty
BothEmpty(r) == Get(r, "to_monsters") = "" /\ Get(r, "to_npcs") = ""

\* C11: a row whose destination cells are both empty is in the unassigned
\* list and in neither candidate list after the first routing; and in the
\* run that a press on "All -> Both" starts, whatever the resolver showed
\* before, every such row is routed to both candidate lists.
C11_AllBothRoutesToBoth ==
    /\ \A r \in Range(run.cleaned) :
          BothEmpty(r) => /\ r \in Range(run.routed_unassigned)
                          /\ r \notin Range(run.routed_monsters)
                          /\ r \notin Range(run.routed_npcs)
    /\ run.pressed = "All -> Both" =>
          /\ Planned
          /\ \A i \in DOMAIN run.unassigned :
                /\ _row_to_m(run.unassigned[i]) /\ _row_to_n(run.unassigned[i])
                /\ run.unassigned[i] \in Range(run.assigned_monsters)
                /\ run.unassigned[i] \in Range(run.assigned_npcs)

\* the names of the rows of a list
RowNames(rows) == { rows[i]["name"] : i \in DOMAIN rows }

\* the report and the store after a commit are what the plan announced for
\* the table: the counters, and the names created
AsPlanned(plan, inserted, updated, skipped, before, after) ==
    /\ inserted = Len(plan.to_insert)
    /\ updated = Len(plan.to_update)
    /\ skipped = Len(plan.skipped_dupes)
    /\ NamesOf(after) \ NamesOf(before) = RowNames(plan.to_insert)
    /\ Len(after) = Len(before) + Len(plan.to_insert)

\* C12: the preview and the commit agree when no one else writes the store
\* between plan and commit: the run that Apply Import starts plans what the
\* preview showed, and its commit reports, for each destination, as many
\* inserts, updates and skips as the plan lists and creates exactly the
\* names of the to_insert rows.
C12_PreviewMatchesCommit ==
    [][ /\ ( run.stage = "PlanReady" /\ run'.stage = "Committing" )
           => ( run'.m_plan = run.m_plan /\ run'.n_plan = run.n_plan )
        /\ ( run.stage = "Committing" /\ run'.stage # "Committing" /\ ext = 0 )
           => /\ run'.stage = "Committed"
              /\ AsPlanned(run.m_plan, run'.report.inserted_m, run'.report.updated_m,
                           run'.report.skipped_m, store["monster"], store'["monster"])
              /\ AsPlanned(run.n_plan, run'.report.inserted_n, run'.report.updated_n,
                           run'.report.skipped_n, store["npc"], store'["npc"]) ]_vars

\* a run committed updates of monsters and inserts of NPCs, no one else
\* having written the store
C12_Witness ==
    /\ run.stage = "Committed"
    /\ ext = 0
    /\ run.report.updated_m > 0
    /\ run.report.inserted_n > 0

\* the file has no header row
NoHeader(u) == u.fieldnames = << >>

\* the file has no column that is called name once it is trimmed
NoNameColumn(u) == \A i \in DOMAIN u.fieldnames : Strip(u.fieldnames[i]) # "name"

\* no line of the file has a name left after trimming
NoNamedRow(u) ==
    \A i \in DOMAIN u.lines :
        \A j \in DOMAIN u.fieldnames :
            Strip(u.fieldnames[j]) = "name" => Strip(u.lines[i][j]) = ""

\* C13: when the upload has no header row, no column named name after
\* trimming, or no row with a non-empty cleaned name, the run reports the
\* problem and halts: it reads no name snapshot, computes no plan, renders
\* no settings, and is not a run that enters the transaction.
C13_FormatErrorHalts ==
    ( upload.present /\ ( NoHeader(upload) \/ NoNameColumn(upload) \/ NoNamedRow(upload) ) )
    => /\ run.stage = "NoNamedRows"
       /\ ( NoHeader(upload) \/ NoNameColumn(upload) ) => run.warnings # << >>
       /\ run.snapshots = 0
       /\ run.m_plan = EmptyPlan
       /\ run.n_plan = EmptyPlan
       /\ widgets = << >>

\* a file with a name column whose only lines have no name was uploaded to
\* a store that holds a record
C13_Witness ==
    /\ upload.present
    /\ ~NoHeader(upload)
    /\ ~NoNameColumn(upload)
    /\ upload.lines # << >>
    /\ NoNamedRow(upload)
    /\ store["monster"] # << >>
    /\ run.stage = "NoNamedRows"

\* C14: the import never deletes a record: in every step that is not the
\* write of another actor, whatever the policy and whether the run commits,
\* fails or is left, each table keeps every name it held and is not shorter.
C14_NeverDeletes ==
    [][ ext' = ext
        => \A kind \in KINDS :
              /\ NamesOf(store[kind]) \subseteq NamesOf(store'[kind])
              /\ Len(store'[kind]) >= Len(store[kind]) ]_vars

\* a run committed a renamed insert next to the record that was there
C14_Witness ==
    /\ run.stage = "Committed"
    /\ ext = 0
    /\ {"G", "G (1)"} \subseteq NamesOf(store["monster"])


(***************************************************************************)
(* Cell helpers on their own: each behaviour is one call of _truthy or of  *)
(* _normalize_cr on one cell.  A cell is a core text between two paddings, *)
(* or None.                                                                *)
(***************************************************************************)
Pads == {"", " ", "\t"}

\* spellings of the six true values, in several letter cases
TrueSpellings ==
    { "1", "true", "TRUE", "True", "tRuE", "t", "T", "yes", "YES", "Yes", "yEs",
      "y", "Y", "on", "ON", "On", "oN" }

\* texts that are none of the six true values
OtherSpellings ==
    { "", "0", "no", "NO", "off", "false", "FALSE", "n", "f", "2", "11", "01", "yess",
      "ye", "tr ue", "o n", "truee", "x", "<none>" }

\* the texts that spreadsheets and users write for 1/8, 1/4 and 1/2
EighthForms  == { "0.125", ".125", "8-Jan", "Jan-8", "Jan-08" }
QuarterForms == { "0.25", ".25", "4-Jan", "Jan-4", "Jan-04" }
HalfForms    == { "0.5", ".5", "2-Jan", "Jan-2", "Jan-02" }
TypedFractions == { "1/8", "1/4", "1/2" }

\* other challenge ratings and near misses of the forms above
OtherCrs ==
    { "", "0", "1", "3", "10", "30", "0.1250", "0.75", "1/3", "Jan-3", "3-Jan",
      "Jan-12", "12-Jan", "Jan-18", "28-Jan", "8-Feb", "Feb-8", "JAN-8", "8-JAN",
      "jan - 8", "8 - jan", "jan 8", "8 jan 2024", "January 4", "2 January",
      "janet 8", "jan 1/8", "Jan-008", "8-Jan-24", "jan", "8" }

CrCores == EighthForms \cup QuarterForms \cup HalfForms \cup TypedFractions \cup OtherCrs

CellOf(padl, core, padr) == padl \o core \o padr

CellInit ==
    /\ store = [kind \in KINDS |-> << >>]
    /\ upload = NoUpload
    /\ session_state = [k \in {} |-> << >>]
    /\ widgets = [k \in {} |-> 0]
    /\ key_identity = TRUE
    /\ run = PageIdle
    /\ ext = 0
    /\ pf = IdleFrame
    /\ af = IdleApply
    /\ cf = IdleCell
    /\ peer = IdlePeer

TruthyFrame(padl, core, padr, arg) ==
    [ pc |-> "returned", fn |-> "_truthy", padl |-> padl, core |-> core, padr |-> padr,
      arg |-> arg, out |-> _truthy(arg), again |-> _truthy(arg) ]

\* one call of _truthy on a cell of the file, or on a cell the line lacks
TruthyCall ==
    /\ cf.pc = "idle"
    /\ \/ \E padl \in Pads, core \in TrueSpellings \cup OtherSpellings, padr \in Pads :
              cf' = TruthyFrame(padl, core, padr, CellOf(padl, core, padr))
       \/ cf' = TruthyFrame("", None, "", None)
    /\ UNCHANGED << store, pf, af, pageVars, peer >>

NormalizeFrame(padl, core, padr, arg) ==
    [ pc |-> "returned", fn |-> "_normalize_cr", padl |-> padl, core |-> core,
      padr |-> padr, arg |-> arg, out |-> _normalize_cr(arg),
      again |-> _normalize_cr(_normalize_cr(arg)) ]

\* one call of _normalize_cr on a cell, and a second call on its result
NormalizeCall ==
    /\ cf.pc = "idle"
    /\ \/ \E padl \in Pads, core \in CrCores, padr \in Pads :
              cf' = NormalizeFrame(padl, core, padr, CellOf(padl, core, padr))
       \/ cf' = NormalizeFrame("", None, "", None)
    /\ UNCHANGED << store, pf, af, pageVars, peer >>

CellNext == TruthyCall \/ NormalizeCall

CellSpec == CellInit /\ [][CellNext]_vars

C16_NormalizeCr ==
    (cf.pc = "returned" /\ cf.fn = "_normalize_cr") =>
        /\ cf.core \in EighthForms => cf.out = "1/8"
        /\ cf.core \in QuarterForms => cf.out = "1/4"
        /\ cf.core \in HalfForms => cf.out = "1/2"
        /\ cf.core \in TypedFractions => cf.out = cf.core
        /\ cf.again = cf.out

C16_Witness ==
    /\ cf.pc = "returned" /\ cf.fn = "_normalize_cr"
    /\ cf.arg = " Jan-08"
    /\ cf.out = "1/8"
    /\ cf.again = "1/8"


(***************************************************************************)
(* Further properties of the planner                                       *)
(***************************************************************************)
\* the final name the suffix rule gives n against the set taken
IsFinalName(final, n, taken) ==
    IF n \notin taken THEN final = n
    ELSE \E i \in 1..(MaxPlanRows + 2) :
            /\ final = n \o " (" \o ToString(i) \o ")"
            /\ final \notin taken
            /\ \A j \in 1..(i - 1) : (n \o " (" \o ToString(j) \o ")") \in taken

\* C17: a row whose name n is not in the existing-name snapshot is appended
\* to to_insert under every policy; its final name is n when n is not in
\* the Name Uniqueness Set, otherwise "n (i)" for the smallest i >= 1 not in
\* the set; the pair (n, final name) is appended to renamed exactly when the
\* name changed; rows already in to_insert keep their places.
C17_NewNameInserted ==
    [][ ( /\ pf.pc = "loop"
          /\ pf'.i = pf.i + 1
          /\ RowName(pf.cleaned_rows[pf.i + 1]) # ""
          /\ RowName(pf.cleaned_rows[pf.i + 1]) \notin _existing_names(pf.kind) )
        =>
        LET r     == pf.cleaned_rows[pf.i + 1]
            n     == RowName(r)
            k     == Len(pf.p.to_insert) + 1
        IN  /\ Len(pf'.p.to_insert) = k
            /\ SubSeq(pf'.p.to_insert, 1, k - 1) = pf.p.to_insert
            /\ IsFinalName(pf'.p.to_insert[k]["name"], n, pf.p.taken)
            /\ pf'.p.to_insert[k] = SetCol(r, "name", pf'.p.to_insert[k]["name"])
            /\ pf'.p.renamed =
                   IF pf'.p.to_insert[k]["name"] # n
                   THEN Append(pf.p.renamed, << n, pf'.p.to_insert[k]["name"] >>)
                   ELSE pf.p.renamed
            /\ pf'.p.to_update = pf.p.to_update
            /\ pf'.p.skipped_dupes = pf.p.skipped_dupes ]_vars

\* under Skip, two rows share a name that no record has: the second is
\* inserted under the suffixed name and the pair is recorded
C17_Witness ==
    /\ pf.pc = "returned"
    /\ pf.dup_mode = SKIP
    /\ _existing_names(pf.kind) = {}
    /\ Len(pf.p.to_insert) = 2
    /\ pf.p.to_insert[1]["name"] = "G"
    /\ pf.p.to_insert[2]["name"] = "G (1)"
    /\ pf.p.renamed = << << "G", "G (1)" >> >>

NamedRows(rows) == SelectSeq(rows, LAMBDA r : RowName(r) # "")

LinesOfRows(rows) == [i \in DOMAIN rows |-> rows[i]["notes"]]

\* C18: every named row is in exactly one of to_insert, to_update and
\* skipped, chosen by (name in snapshot, policy) alone: in the snapshot it
\* is skipped under Skip, inserted under Rename and updated as it is under
\* Overwrite; not in the snapshot it is inserted.  The three lengths sum to
\* the number of named rows, to_update is empty unless the policy is
\* Overwrite and skipped is empty unless it is Skip.
C18_PlanPartition ==
    pf.pc = "returned" =>
        LET named    == NamedRows(pf.cleaned_rows)
            snapshot == _existing_names(pf.kind)
            toSkip   == SelectSeq(named, LAMBDA r : RowName(r) \in snapshot /\ pf.dup_mode = SKIP)
            toUpdate == SelectSeq(named, LAMBDA r : RowName(r) \in snapshot /\ pf.dup_mode = OVERWRITE)
            toInsert == SelectSeq(named, LAMBDA r : RowName(r) \notin snapshot \/ pf.dup_mode = RENAME)
        IN  /\ pf.p.skipped_dupes = [i \in DOMAIN toSkip |-> RowName(toSkip[i])]
            /\ pf.p.to_update = toUpdate
            /\ LinesOfRows(pf.p.to_insert) = LinesOfRows(toInsert)
            /\ Len(pf.p.to_insert) + Len(pf.p.to_update) + Len(pf.p.skipped_dupes) = Len(named)
            /\ pf.dup_mode # OVERWRITE => pf.p.to_update = << >>
            /\ pf.dup_mode # SKIP => pf.p.skipped_dupes = << >>

\* three rows under Overwrite: one updated, one inserted, one without a name
C18_Witness ==
    /\ pf.pc = "returned"
    /\ pf.dup_mode = OVERWRITE
    /\ Len(pf.cleaned_rows) = 3
    /\ Len(pf.p.to_update) = 1
    /\ Len(pf.p.to_insert) = 1
    /\ Len(NamedRows(pf.cleaned_rows)) = 2


(***************************************************************************)
(* Further properties of field application                                 *)
(***************************************************************************)
\* a cell that _to_int cannot read as a number: it answers with the default
NotANumber(v) == _to_int(v, 0 - 1) = 0 - 1 /\ _to_int(v, 0 - 2) = 0 - 2

\* C19: an ability-score cell that is blank or is no number leaves the
\* stored score as it is, for every stored value, 0 included; the score is
\* 10 only when the record has no stored score.
C19_BlankScoreKeepsStored ==
    af.pc = "returned" =>
        \A col \in SCORE_COLUMNS :
            NotANumber(Get(af.row, col)) =>
                af.obj[col] = IF af.before[col] = NoneInt THEN 10 ELSE af.before[col]

NamedLines(u) ==
    { i \in DOMAIN u.lines :
        \E j \in DOMAIN u.fieldnames :
            Strip(u.fieldnames[j]) = "name" /\ Strip(u.lines[i][j]) # "" }

\* every row of the list has a name
AllNamed(rows) == \A i \in DOMAIN rows : RowName(rows[i]) # ""

\* the plan holds no row and no entry without a name
PlanAllNamed(plan) ==
    /\ AllNamed(plan.to_insert)
    /\ AllNamed(plan.to_update)
    /\ "" \notin Range(plan.skipped_dupes)
    /\ \A i \in DOMAIN plan.renamed : plan.renamed[i][1] # "" /\ plan.renamed[i][2] # ""

\* C21: a row whose cleaned name is empty is dropped before the routing and
\* counted nowhere: the rows kept are as many as the named lines of the
\* file, no candidate list, unassigned list or plan list holds a row or an
\* entry without a name, and the counts the run shows and reports stay
\* within the rows of each destination.
C21_EmptyNameDropped ==
    upload.present =>
        /\ Len(run.cleaned) = Cardinality(NamedLines(upload))
        /\ AllNamed(run.cleaned)
        /\ AllNamed(run.routed_monsters) /\ AllNamed(run.routed_npcs)
        /\ AllNamed(run.routed_unassigned) /\ AllNamed(run.unassigned)
        /\ AllNamed(run.assigned_monsters) /\ AllNamed(run.assigned_npcs)
        /\ Len(run.routed_unassigned) <= Len(run.cleaned)
        /\ Len(run.assigned_monsters) <= Len(run.cleaned)
        /\ Len(run.assigned_npcs) <= Len(run.cleaned)
        /\ run.still_unassigned <= Len(run.routed_unassigned)
        /\ PlanAllNamed(run.m_plan) /\ PlanAllNamed(run.n_plan)
        /\ Planned =>
              /\ Len(run.m_plan.to_insert) + Len(run.m_plan.to_update)
                    + Len(run.m_plan.skipped_dupes) = Len(run.assigned_monsters)
              /\ Len(run.n_plan.to_insert) + Len(run.n_plan.to_update)
                    + Len(run.n_plan.skipped_dupes) = Len(run.assigned_npcs)
        /\ run.stage = "Committed" =>
              /\ run.report.inserted_m + run.report.updated_m + run.report.skipped_m
                    = Len(run.assigned_monsters)
              /\ run.report.inserted_n + run.report.updated_n + run.report.skipped_n
                    = Len(run.assigned_npcs)

\* a file with a line without a name and a named line was committed: one
\* record was written
C21_Witness ==
    /\ upload.present
    /\ Cardinality(NamedLines(upload)) = 1
    /\ Len(upload.lines) = 2
    /\ run.stage = "Committed"
    /\ run.report.inserted_m + run.report.updated_m + run.report.skipped_m
          + run.report.inserted_n + run.report.updated_n + run.report.skipped_n >= 1


\* the step runs the page again on the same file with the choices of the
\* resolver as they are: the same bulk button as in the run before, a change
\* of a setting, or Apply Import
SameChoices ==
    /\ upload.present
    /\ upload' = upload
    /\ run.resolver
    /\ \/ run.pressed \in BULK_BUTTONS /\ run'.pressed = run.pressed
       \/ run'.pressed = APPLY_BUTTON
       \/ \E k \in SETTING_KEYS \cap DOMAIN widgets \cap DOMAIN widgets' :
             widgets'[k].val # widgets[k].val

\* C22: resolution is idempotent: a run with the same choices as the run
\* before (the same bulk button again, or a rerun that leaves the resolver
\* alone) gives every unassigned row the same destination flags and builds
\* the same monsters and NPCs candidate lists, and no list holds a row more
\* often than the file does.
C22_ResolutionIdempotent ==
    [][ SameChoices
        =>
        /\ session_state'[EDITOR_KEY] = session_state[EDITOR_KEY]
        /\ run'.unassigned = run.unassigned
        /\ run'.still_unassigned = run.still_unassigned
        /\ run'.assigned_monsters = run.assigned_monsters
        /\ run'.assigned_npcs = run.assigned_npcs
        /\ Len(run'.assigned_monsters) <= Len(run'.cleaned)
        /\ Len(run'.assigned_npcs) <= Len(run'.cleaned) ]_vars

\* a run that Apply Import started after the rows were resolved: it holds a
\* once-unassigned row in both candidate lists, each as long as the file
C22_Witness ==
    /\ run.stage = "Committing"
    /\ run.resolver
    /\ Len(run.cleaned) = 2
    /\ Len(run.unassigned) = 1
    /\ Len(run.assigned_monsters) = 2
    /\ Len(run.assigned_npcs) = 2


(***************************************************************************)
(* Two actors: each imports one file in a session of the page of its own.  *)
(* A run reads its name snapshots when it plans and writes in its          *)
(* transaction; nothing locks the store in between.                        *)
(***************************************************************************)
\* a row for the monsters that differs from LineM in its challenge rating
LineQ == << "G", "TRUE", "", "0.25" >>

RaceFiles ==
    { FileOf(<< LineM >>), FileOf(<< LineQ >>), FileOf(<< LineB >>), FileOf(<< LineN >>) }

\* the settings widgets of a user who picked the policy `mode`, set
\* "Overwrite only non-blank fields" to nb and switched dry run off
StartWidgets(mode, nb) ==
    ("dup_mode_bulk" :> [default |-> SKIP, val |-> mode])
       @@ ("overwrite_nonblank_bulk" :> [default |-> TRUE, val |-> nb])
       @@ ("dryrun_bulk" :> [default |-> TRUE, val |-> FALSE])

\* the policies and flags a run can start with
StartSettings ==
    { << mode, nb >> \in DUP_MODES \X BOOLEAN : mode = OVERWRITE \/ nb }

RaceInit ==
    /\ store \in { [monster |-> TableOf(m), npc |-> TableOf({})] : m \in {{}, {"G"}} }
    /\ upload = NoUpload
    /\ session_state = << >>
    /\ widgets = << >>
    /\ key_identity \in BOOLEAN
    /\ run = BlankRun
    /\ ext = 0
    /\ pf = IdleFrame
    /\ af = IdleApply
    /\ cf = IdleCell
    /\ peer = IdlePeer

\* the run that a press on Apply Import starts in the first actor's session:
\* it reads the file, plans against the names it reads now, and enters its
\* transaction
RunStart ==
    /\ run.stage = "NoUpload"
    /\ \E f \in RaceFiles, st \in StartSettings :
         Rerun(f, StartWidgets(st[1], st[2]), APPLY_BUTTON)

\* the same run in the other actor's session
PeerStart ==
    /\ peer.run.stage = "NoUpload"
    /\ \E f \in RaceFiles, st \in StartSettings :
         \E out \in { Script(f, << >>, StartWidgets(st[1], st[2]), APPLY_BUTTON) } :
             peer' = [run |-> out.run, overtaken |-> FALSE]
    /\ UNCHANGED << store, pf, af, cf, pageVars >>

\* the first actor's session commits or fails; ext counts the commits of
\* others since the run read its snapshots
RunCommit ==
    /\ run.stage = "Committing"
    /\ \E t \in { Transaction(store, run) } :
         /\ store' = t.store
         /\ run' = [run EXCEPT !.stage = IF t.ok THEN "Committed" ELSE "CommitFailed",
                               !.report = t.report]
         /\ peer' = [peer EXCEPT !.overtaken =
                        peer.overtaken \/ (t.ok /\ peer.run.stage = "Committing")]
    /\ UNCHANGED << upload, session_state, widgets, key_identity, ext, pf, af, cf >>

\* the other actor's session commits or fails
PeerCommit ==
    /\ peer.run.stage = "Committing"
    /\ \E t \in { Transaction(store, peer.run) } :
         /\ store' = t.store
         /\ peer' = [peer EXCEPT
                       !.run.stage = IF t.ok THEN "Committed" ELSE "CommitFailed",
                       !.run.report = t.report]
         /\ ext' = IF t.ok /\ run.stage = "Committing" THEN ext + 1 ELSE ext
    /\ UNCHANGED << upload, session_state, widgets, key_identity, run, pf, af, cf >>

RaceNext == RunStart \/ PeerStart \/ RunCommit \/ PeerCommit

RaceSpec == RaceInit /\ [][RaceNext]_vars


(***************************************************************************)
(* Properties of two racing runs                                           *)
(***************************************************************************)
\* the run left its transaction
Done(r) == r.stage \in {"Committed", "CommitFailed"}

\* two records of the table have the same name
HasDuplicate(table) ==
    \E i, j \in DOMAIN table : i # j /\ table[i]["name"] = table[j]["name"]

\* each run read its snapshots before the other committed
Raced == ext > 0 \/ peer.overtaken

\* of two runs that raced, the one that committed first and the other
FirstRun == IF ext > 0 THEN peer.run ELSE run

SecondRun == IF ext > 0 THEN run ELSE peer.run

PlanOf(r, kind) == IF kind = "monster" THEN r.m_plan ELSE r.n_plan

\* the names both runs planned to insert into the table
CommonInserts(kind) ==
    RowNames(PlanOf(run, kind).to_insert) \cap RowNames(PlanOf(peer.run, kind).to_insert)

\* the names both runs planned to update in the table
CommonUpdates(kind) ==
    { RowName(PlanOf(run, kind).to_update[i]) : i \in DOMAIN PlanOf(run, kind).to_update }
       \cap { RowName(PlanOf(peer.run, kind).to_update[i]) :
                 i \in DOMAIN PlanOf(peer.run, kind).to_update }

\* the record of the table that has the name
RecordOf(table, nm) == table[CHOOSE i \in DOMAIN table : table[i]["name"] = nm]

\* the records of the table hold the challenge rating that the to_update
\* rows of the run give them
UpdatesStored(r, kind) ==
    \A i \in DOMAIN PlanOf(r, kind).to_update :
        LET row == PlanOf(r, kind).to_update[i] IN
        ( ~r.overwrite_nonblank_only \/ TextValue(row, "cr") # "" )
            => RecordOf(store[kind], RowName(row))["cr"] = TextValue(row, "cr")

\* C23 as stated: two runs that each read their snapshot before the other
\* committed and that both planned to insert the same name both commit, and
\* the store is left with that name twice in one entity type.
C23_RaceLeavesDuplicate ==
    ( /\ Done(run) /\ Done(peer.run)
      /\ Raced
      /\ \E kind \in KINDS : CommonInserts(kind) # {} )
    => ( /\ run.stage = "Committed"
         /\ peer.run.stage = "Committed"
         /\ \E kind \in KINDS : HasDuplicate(store[kind]) )

\* C23 amended: two runs that each read their snapshot before the other
\* committed never leave a name twice in an entity type.  When both planned
\* to insert the same name, the run that commits second fails as a whole and
\* reports nothing; otherwise it commits, and the records both runs update
\* hold the values of the second run: the update of the first is lost.
C23_RaceOutcome ==
    ( Done(run) /\ Done(peer.run) /\ Raced )
    => /\ \A kind \in KINDS : ~HasDuplicate(store[kind])
       /\ FirstRun.stage = "Committed"
       /\ IF \E kind \in KINDS : CommonInserts(kind) # {}
          THEN SecondRun.stage = "CommitFailed" /\ SecondRun.report = NoReport
          ELSE /\ SecondRun.stage = "Committed"
               /\ \A kind \in KINDS : UpdatesStored(SecondRun, kind)

\* both runs updated the monster G with different challenge ratings and both
\* committed: the record holds the rating of the second run only
C23_Witness ==
    /\ Done(run) /\ Done(peer.run)
    /\ Raced
    /\ FirstRun.stage = "Committed" /\ SecondRun.stage = "Committed"
    /\ FirstRun.report.updated_m = 1 /\ SecondRun.report.updated_m = 1
    /\ CommonUpdates("monster") = {"G"}
    /\ TextValue(FirstRun.m_plan.to_update[1], "cr") = "1/8"
    /\ TextValue(SecondRun.m_plan.to_update[1], "cr") = "1/4"
    /\ RecordOf(store["monster"], "G")["cr"] = "1/4"


(***************************************************************************)
(* The planner on row objects.  The rows of a run are Python dicts that    *)
(* the candidate lists share: a row routed to both destinations is one     *)
(* object in two lists.  heap is the sequence of the dict objects, a       *)
(* reference is a position in it, and the lists of a plan hold references. *)
(***************************************************************************)
\* the loop body with rr = r instead of rr = dict(r)
PlanRowRefNoCopy(s, ref, dup_mode) ==
    LET r         == s.heap[ref]
        base_name == _clean(Get(r, "name"))
        new_name  == _unique_name(base_name, s.p.taken)
        inserted  ==
            [ heap |-> [s.heap EXCEPT ![ref] = SetCol(r, "name", new_name)],
              p    |-> [s.p EXCEPT
                          !.taken     = s.p.taken \cup {new_name},
                          !.renamed   = IF new_name # base_name
                                        THEN Append(s.p.renamed, << base_name, new_name >>)
                                        ELSE s.p.renamed,
                          !.to_insert = Append(s.p.to_insert, ref)] ]
    IN  IF base_name = "" THEN s
        ELSE IF base_name \in s.p.existing
             THEN IF dup_mode = SKIP
                     THEN [s EXCEPT !.p.skipped_dupes = Append(s.p.skipped_dupes, base_name)]
                  ELSE IF StartsWith(dup_mode, "Rename")
                     THEN inserted
                  ELSE [s EXCEPT !.p.to_update = Append(s.p.to_update, ref)]
        ELSE inserted

\* one iteration of the loop of _plan_import on the row object `ref`:
\* rr = dict(r) is a new object at the end of the heap, to_update takes the
\* object itself
PlanRowRef(s, ref, dup_mode) ==
    LET r         == s.heap[ref]
        base_name == _clean(Get(r, "name"))
        new_name  == _unique_name(base_name, s.p.taken)
        inserted  ==
            [ heap |-> Append(s.heap, SetCol(r, "name", new_name)),
              p    |-> [s.p EXCEPT
                          !.taken     = s.p.taken \cup {new_name},
                          !.renamed   = IF new_name # base_name
                                        THEN Append(s.p.renamed, << base_name, new_name >>)
                                        ELSE s.p.renamed,
                          !.to_insert = Append(s.p.to_insert, Len(s.heap) + 1)] ]
    IN  IF base_name = "" THEN s
        ELSE IF base_name \in s.p.existing
             THEN IF dup_mode = SKIP
                     THEN [s EXCEPT !.p.skipped_dupes = Append(s.p.skipped_dupes, base_name)]
                  ELSE IF StartsWith(dup_mode, "Rename")
                     THEN inserted
                  ELSE [s EXCEPT !.p.to_update = Append(s.p.to_update, ref)]
        ELSE inserted

\* the call of _plan_import on the list refs; the page makes it only for a
\* list that is not empty
RECURSIVE PlanLoopRef(_, _, _)
PlanLoopRef(s, refs, dup_mode) ==
    IF refs = << >> THEN s
    ELSE PlanLoopRef(PlanRowRef(s, Head(refs), dup_mode), Tail(refs), dup_mode)

\* a run routes the rows of a file: both candidate lists hold references to
\* the same row objects
AliasStart ==
    /\ pf.pc = "idle"
    /\ \E n \in 1..MaxRows, mode \in DUP_MODES :
       \E lines \in [1..n -> {LineM, LineB, LineN}] :
         LET rows == [i \in 1..n |-> RowDict(HEADER, lines[i])]
             refs == [i \in 1..n |-> i]
         IN  pf' = [ pc |-> "routed", dup_mode |-> mode, heap0 |-> rows, heap |-> rows,
                     am |-> SelectSeq(refs, LAMBDA i : _row_to_m(rows[i])),
                     an |-> SelectSeq(refs, LAMBDA i : _row_to_n(rows[i])),
                     m |-> EmptyPlan, n |-> EmptyPlan,
                     alone |-> [heap |-> rows, p |-> EmptyPlan] ]
    /\ UNCHANGED << store, af, cf, pageVars, peer >>

\* the page plans the monsters, then the NPCs, on the same row objects;
\* alone is the NPCs plan on the rows as the routing left them
AliasPlan ==
    /\ pf.pc \in {"routed", "m_planned"}
    /\ IF pf.pc = "routed"
       THEN \E out \in { IF pf.am # << >>
                         THEN PlanLoopRef([heap |-> pf.heap,
                                           p |-> PlanStart(_existing_names("monster"))],
                                          pf.am, pf.dup_mode)
                         ELSE [heap |-> pf.heap, p |-> EmptyPlan] } :
                pf' = [pf EXCEPT !.pc = "m_planned", !.heap = out.heap, !.m = out.p]
       ELSE \E out \in { IF pf.an # << >>
                         THEN PlanLoopRef([heap |-> pf.heap,
                                           p |-> PlanStart(_existing_names("npc"))],
                                          pf.an, pf.dup_mode)
                         ELSE [heap |-> pf.heap, p |-> EmptyPlan] } :
                pf' = [pf EXCEPT
                         !.pc = "planned", !.heap = out.heap, !.n = out.p,
                         !.alone = IF pf.an # << >>
                                   THEN PlanLoopRef([heap |-> pf.heap0,
                                                     p |-> PlanStart(_existing_names("npc"))],
                                                    pf.an, pf.dup_mode)
                                   ELSE [heap |-> pf.heap0, p |-> EmptyPlan]]
    /\ UNCHANGED << store, af, cf, pageVars, peer >>

AliasNext == AliasStart \/ AliasPlan

AliasSpec == PlanInit /\ [][AliasNext]_vars

\* the plan with the rows its references stand for
RowsOfPlan(plan, heap) ==
    [ to_insert     |-> [i \in DOMAIN plan.to_insert |-> heap[plan.to_insert[i]]],
      to_update     |-> [i \in DOMAIN plan.to_update |-> heap[plan.to_update[i]]],
      skipped_dupes |-> plan.skipped_dupes,
      renamed       |-> plan.renamed ]

\* C24: planning leaves the candidate rows as it was given them, so a row
\* in both candidate lists is planned for each destination on its own: the
\* NPCs plan that follows the monsters plan uses the names of the file, and
\* it is the plan the NPCs would get had the monsters plan never run.
C24_PlansIndependent ==
    /\ pf.pc \in {"m_planned", "planned"} =>
          SubSeq(pf.heap, 1, Len(pf.heap0)) = pf.heap0
    /\ pf.pc = "planned" =>
          /\ RowsOfPlan(pf.n, pf.heap) = RowsOfPlan(pf.alone.p, pf.alone.heap)
          /\ \A i \in DOMAIN pf.n.renamed :
                \E j \in DOMAIN pf.an :
                    pf.n.renamed[i][1] = RowName(pf.heap0[pf.an[j]])

\* a row in both lists was renamed "G (1)" by the monsters plan and is
\* inserted as "G" by the NPCs plan
C24_Witness ==
    /\ pf.pc = "planned"
    /\ pf.dup_mode = RENAME
    /\ \E i \in DOMAIN pf.am :
          /\ pf.am[i] \in Range(pf.an)
          /\ \E j \in DOMAIN pf.m.to_insert, k \in DOMAIN pf.n.to_insert :
                /\ pf.heap[pf.m.to_insert[j]] = SetCol(pf.heap0[pf.am[i]], "name", "G (1)")
                /\ pf.heap[pf.n.to_insert[k]] = SetCol(pf.heap0[pf.am[i]], "name", "G")


(***************************************************************************)
(* Further properties of racing runs                                       *)
(***************************************************************************)
\* the run r is about to insert, on the store st, a record whose name a
\* record of the same entity type already has
InsertsStoredName(st, r) ==
    \/ /\ r.assigned_monsters # << >>
       /\ \E i \in DOMAIN r.m_plan.to_insert :
             RowName(r.m_plan.to_insert[i]) \in NamesOf(st["monster"])
    \/ /\ r.assigned_npcs # << >>
       /\ \E i \in DOMAIN r.n_plan.to_insert :
             RowName(r.n_plan.to_insert[i]) \in NamesOf(st["npc"])

\* C25: whatever runs committed or failed, and in whatever order, no two
\* records of one entity type have the same name; a run that leaves its
\* transaction while one of its inserts has a name already in the store
\* fails, and the store is as it was before.
C25_NamesStayUnique ==
    /\ [](\A kind \in {"monster", "npc"} : ~HasDuplicate(store[kind]))
    /\ [][ /\ (run.stage = "Committing" /\ Done(run') /\ InsertsStoredName(store, run))
              => (run'.stage = "CommitFailed" /\ store' = store)
           /\ (peer.run.stage = "Committing" /\ Done(peer'.run)
                 /\ InsertsStoredName(store, peer.run))
              => (peer'.run.stage = "CommitFailed" /\ store' = store) ]_vars

\* one run committed the name the other planned to insert; the other failed
\* and the name is in the store once
C25_Witness ==
    /\ \/ run.stage = "CommitFailed" /\ peer.run.stage = "Committed"
       \/ run.stage = "Committed" /\ peer.run.stage = "CommitFailed"
    /\ InsertsStoredName(store, run) /\ InsertsStoredName(store, peer.run)
    /\ \A kind \in {"monster", "npc"} : ~HasDuplicate(store[kind])
    /\ \E kind \in {"monster", "npc"} : Len(store[kind]) > 0

====
